---- MODULE Spec2Model ----
(***************************************************************************)
(* A model of app.py, the weekly check-in web application: the relational  *)
(* store (user, question, check_in, answer), the signed session cookie of  *)
(* each browser, the routes login, logout, checkin, dashboard, week_detail,*)
(* couple and admin_questions, and the CLI command init-db.                *)
(*                                                                         *)
(* Form values are sequences of one-character strings, so that str.strip() *)
(* and int() are computed as Python computes them.  Dates are proleptic    *)
(* Gregorian ordinals (date.toordinal()).                                  *)
(***************************************************************************)
EXTENDS Integers, Sequences, FiniteSets, TLC

VARIABLES
    tables,     \* TRUE once db.create_all() has created the four tables
    user,       \* table "user", in rowid order
    question,   \* table "question", in rowid order
    check_in,   \* table "check_in", in rowid order
    answer,     \* table "answer", in rowid order
    session,    \* per browser: session["user_id"], or None
    today,      \* date.today()
    req,        \* the last request (or CLI command) handled
    resp,       \* the response it ended in
    added_by,   \* history: for each question added over the web, the session user of that request
    calls       \* history of get_current_week_start calls, <<today, result>> (specification SpecWeek)

vars == <<tables, user, question, check_in, answer, session, today, req, resp, added_by, calls>>
db == <<tables, user, question, check_in, answer>>

(***************************************************************************)
(* Bounds of the model.                                                    *)
(***************************************************************************)
MaxDays == 10         \* date.today() ranges over FirstDay .. FirstDay + MaxDays
MaxCheckIns == 2      \* rows of check_in in specification Spec
MaxQuestions == 5     \* rows of question
MaxAggCheckIns == 3   \* rows of check_in in specification SpecAgg
MaxAggWeeks == 3      \* specification SpecAgg: week starts FirstDay + 7 * (0 .. MaxAggWeeks)
MaxCalls == 2         \* recorded calls in specification SpecWeek
MaxWeekDays == 30     \* specification SpecWeek: today ranges over FirstDay .. FirstDay + MaxWeekDays

\* the browsers; one browser logs in as either user, one after the other
Clients == {"a"}

(***************************************************************************)
(* Python strings.                                                         *)
(***************************************************************************)
RECURSIVE lstrip(_)
lstrip(s) == IF s # <<>> /\ Head(s) = " " THEN lstrip(Tail(s)) ELSE s

RECURSIVE rstrip(_)
rstrip(s) == IF s # <<>> /\ s[Len(s)] = " " THEN rstrip(SubSeq(s, 1, Len(s) - 1)) ELSE s

\* str.strip(); the blank stands for every whitespace character
strip(s) == rstrip(lstrip(s))

\* request.form.get(key, default)
form_get(form, key, default) == IF key \in DOMAIN form THEN form[key] ELSE default

Digits == <<"0", "1", "2", "3", "4", "5", "6", "7", "8", "9">>
IsDigit(c) == \E i \in 1..10 : Digits[i] = c
DigitValue(c) == (CHOOSE i \in 1..10 : Digits[i] = c) - 1

RECURSIVE DecimalValue(_)
DecimalValue(s) == IF s = <<>> THEN 0
                   ELSE 10 * DecimalValue(SubSeq(s, 1, Len(s) - 1)) + DigitValue(s[Len(s)])

AllDigits(s) == s # <<>> /\ \A i \in 1..Len(s) : IsDigit(s[i])

\* int(s) for a str: surrounding whitespace and one sign are accepted, then decimal
\* digits; anything else raises ValueError (digit separators and non-ASCII digits
\* do not occur in the values of the model).
int_ok(s) ==
    LET t == strip(s)
        u == IF t # <<>> /\ Head(t) \in {"+", "-"} THEN Tail(t) ELSE t
    IN AllDigits(u)

int_value(s) ==
    LET t == strip(s)
    IN IF t # <<>> /\ Head(t) = "-" THEN 0 - DecimalValue(Tail(t))
       ELSE IF t # <<>> /\ Head(t) = "+" THEN DecimalValue(Tail(t))
       ELSE DecimalValue(t)

(***************************************************************************)
(* datetime.date: ordinals, weekday(), strftime("%Y-%m-%d").               *)
(***************************************************************************)
IsLeap(y) == y % 4 = 0 /\ (y % 100 # 0 \/ y % 400 = 0)
DaysBeforeMonth == <<0, 31, 59, 90, 120, 151, 181, 212, 243, 273, 304, 334>>
DaysInMonth == <<31, 28, 31, 30, 31, 30, 31, 31, 30, 31, 30, 31>>
DaysBeforeYear(y) == (y - 1) * 365 + ((y - 1) \div 4) - ((y - 1) \div 100) + ((y - 1) \div 400)

\* date(y, m, d).toordinal()
Ordinal(y, m, d) ==
    DaysBeforeYear(y) + DaysBeforeMonth[m] + (IF m > 2 /\ IsLeap(y) THEN 1 ELSE 0) + d

\* date.fromordinal(n) as <<year, month, day>>
YearMonthDay(n) ==
    LET n0 == n - 1
        n400 == n0 \div 146097
        r400 == n0 % 146097
        n100 == r400 \div 36524
        r100 == r400 % 36524
        n4 == r100 \div 1461
        r4 == r100 % 1461
        n1 == r4 \div 365
        r1 == r4 % 365
        year == n400 * 400 + 1 + n100 * 100 + n4 * 4 + n1
        leap == n1 = 3 /\ (n4 # 24 \/ n100 = 3)
        m0 == (r1 + 50) \div 32
        p0 == DaysBeforeMonth[m0] + (IF m0 > 2 /\ leap THEN 1 ELSE 0)
        month == IF p0 > r1 THEN m0 - 1 ELSE m0
        preceding == IF p0 > r1
                     THEN p0 - (DaysInMonth[month] + (IF month = 2 /\ leap THEN 1 ELSE 0))
                     ELSE p0
    IN IF n1 = 4 \/ n100 = 4 THEN <<year - 1, 12, 31>>
       ELSE <<year, month, r1 - preceding + 1>>

\* d.strftime("%Y-%m-%d"): the zero-padded fields year, month, day; the text order
\* of two labels is the order of their fields.
strftime(d) == YearMonthDay(d)

LabelLess(a, b) ==
    \/ a[1] < b[1]
    \/ a[1] = b[1] /\ a[2] < b[2]
    \/ a[1] = b[1] /\ a[2] = b[2] /\ a[3] < b[3]

\* date.weekday(): Monday is 0, Sunday is 6
weekday(d) == (d + 6) % 7

\* get_current_week_start with isoweekday() (Monday is 1) in the place of weekday()
get_current_week_start_isoweekday(day) == day - (weekday(day) + 1)
\* get_current_week_start(), with today = day: the Monday of the week of day
get_current_week_start(day) == day - weekday(day)

FirstDay == Ordinal(2024, 12, 23)


(***************************************************************************)
(* The store.                                                              *)
(***************************************************************************)
NoUser == 0                 \* session.get("user_id") is None
NoRow == [id |-> 0]         \* Query.get() / .first() returned None

mina == <<"m", "i", "n", "a">>
tema == <<"t", "e", "m", "a">>
parool1 == <<"p", "a", "r", "o", "o", "l", "1">>
parool2 == <<"p", "a", "r", "o", "o", "l", "2">>

\* werkzeug.security: the hash is salted and one-way; check_password_hash
\* accepts exactly the password the hash was generated from.
generate_password_hash(password) == <<"hash", password>>
check_password_hash(pwhash, password) == pwhash = <<"hash", password>>

\* User.check_password
check_password(u, password) == check_password_hash(u.password_hash, password)

\* the next INTEGER PRIMARY KEY of a table that never deletes single rows
NextId(table) == Len(table) + 1

SeedUsers ==
    << [id |-> 1, name |-> "Mina", slug |-> mina, password_hash |-> generate_password_hash(parool2)],
       [id |-> 2, name |-> "Tema", slug |-> tema, password_hash |-> generate_password_hash(parool1)] >>

SeedQuestions ==
    << [id |-> 1, text |-> <<"q", "1">>, kind |-> "scale"],
       [id |-> 2, text |-> <<"q", "2">>, kind |-> "scale"],
       [id |-> 3, text |-> <<"q", "3">>, kind |-> "text"],
       [id |-> 4, text |-> <<"q", "4">>, kind |-> "text"] >>

\* Model.query.get(id)
query_get(table, id) ==
    IF \E i \in 1..Len(table) : table[i].id = id
    THEN table[CHOOSE i \in 1..Len(table) : table[i].id = id]
    ELSE NoRow

\* User.query.filter_by(slug=slug).first(); slug is unique
user_by_slug(slug) ==
    IF \E i \in 1..Len(user) : user[i].slug = slug
    THEN user[CHOOSE i \in 1..Len(user) : user[i].slug = slug]
    ELSE NoRow

\* current_user() of browser c
current_user(c) == IF session[c] # NoUser THEN query_get(user, session[c]) ELSE NoRow

\* is_admin without the slug test
is_admin_any(u) == u.id # 0
\* is_admin(user)
is_admin(u) == u.id # 0 /\ u.slug = mina

\* Question.query.filter_by(kind="scale").first(): SQLite scans the table in
\* rowid order, so this is the scale question of least id.
first_scale_question ==
    IF \E i \in 1..Len(question) : question[i].kind = "scale"
    THEN question[CHOOSE i \in 1..Len(question) :
                    /\ question[i].kind = "scale"
                    /\ \A j \in 1..(i - 1) : question[j].kind # "scale"]
    ELSE NoRow

(***************************************************************************)
(* Responses.                                                              *)
(***************************************************************************)
NoFlash == "none"
NoData == [none |-> TRUE]

\* an unhandled exception: Flask answers 500 Internal Server Error
ServerError(what) == [status |-> 500, view |-> what, flash |-> NoFlash, data |-> NoData]

\* render_template(view, ...): inject_user() runs current_user() for every template
render_template(c, view, flash, data) ==
    IF session[c] # NoUser /\ ~tables
    THEN ServerError("OperationalError")
    ELSE [status |-> 200, view |-> view, flash |-> flash, data |-> data]

redirect(target, flash) == [status |-> 302, view |-> target, flash |-> flash, data |-> NoData]
abort(code) == [status |-> code, view |-> "error", flash |-> NoFlash, data |-> NoData]

\* a view without login_required
logged_in_always(c) == TRUE
\* login_required: the view runs only with a user_id in the session
logged_in(c) == session[c] # NoUser

(***************************************************************************)
(* Initial state: the module is imported, db = SQLAlchemy(app) creates no  *)
(* table, no browser holds a session.                                      *)
(***************************************************************************)
Init ==
    /\ tables = FALSE
    /\ user = <<>>
    /\ question = <<>>
    /\ check_in = <<>>
    /\ answer = <<>>
    /\ session = [c \in Clients |-> NoUser]
    /\ today = FirstDay
    /\ req = [route |-> "none"]
    /\ resp = [status |-> 0, view |-> "none", flash |-> NoFlash, data |-> NoData]
    /\ added_by = <<>>
    /\ calls = <<>>

\* flask init-db: drop_all, create_all, two users and four questions
\* (a fresh table numbers its rows from 1 again); browsers keep their cookies.
init_db ==
    /\ tables' = TRUE
    /\ user' = SeedUsers
    /\ question' = SeedQuestions
    /\ check_in' = <<>>
    /\ answer' = <<>>
    /\ added_by' = <<>>
    /\ req' = [route |-> "init-db"]
    /\ resp' = [status |-> 0, view |-> "cli", flash |-> NoFlash, data |-> NoData]
    /\ UNCHANGED <<session, today, calls>>

\* the calendar: five days pass (Monday, Saturday, Thursday of the next week, ...)
Tick ==
    /\ today + 5 <= FirstDay + MaxDays
    /\ today' = today + 5
    /\ UNCHANGED <<db, session, req, resp, added_by, calls>>

(***************************************************************************)
(* /login and /logout                                                      *)
(***************************************************************************)
\* the submitted forms: both users' credentials (padded with blanks), a wrong
\* password, an unknown slug
LoginForms ==
    { [slug |-> mina, password |-> parool2 \o <<" ">>],
      [slug |-> <<" ">> \o tema, password |-> parool1],
      [slug |-> mina, password |-> parool1],
      [slug |-> <<"x">>, password |-> parool1] }

login_user(slug) == user_by_slug(strip(slug))
login_accepts(slug, password) ==
    LET u == login_user(slug)
    IN u.id # 0 /\ check_password(u, strip(password))

login_get(c) ==
    /\ req' = [route |-> "login", method |-> "GET", client |-> c]
    /\ resp' = render_template(c, "login.html", NoFlash, NoData)
    /\ UNCHANGED <<db, session, today, added_by, calls>>

login_post(c, slug, password) ==
    /\ req' = [route |-> "login", method |-> "POST", client |-> c,
               slug |-> slug, password |-> password]
    /\ IF ~tables
       THEN \* User.query on a database without tables: sqlite3.OperationalError
            /\ resp' = ServerError("OperationalError")
            /\ UNCHANGED session
       ELSE IF login_accepts(slug, password)
       THEN /\ session' = [session EXCEPT ![c] = login_user(slug).id]
            /\ resp' = redirect("dashboard", "welcome")
       ELSE /\ resp' = render_template(c, "login.html", "bad_credentials", NoData)
            /\ UNCHANGED session
    /\ UNCHANGED <<db, today, added_by, calls>>

logout(c) ==
    /\ req' = [route |-> "logout", method |-> "GET", client |-> c]
    /\ session' = [session EXCEPT ![c] = NoUser]
    /\ resp' = redirect("login", "logged_out")
    /\ UNCHANGED <<db, today, added_by, calls>>


(***************************************************************************)
(* Queries and aggregation.                                                *)
(***************************************************************************)
\* ch.answers, u.checkins: the rows of the relationship, in rowid order
answers_of(chid) == SelectSeq(answer, LAMBDA a : a.checkin_id = chid)
checkins_of(uid) == SelectSeq(check_in, LAMBDA ch : ch.user_id = uid)

\* next((a for a in ch.answers if a.question_id == qid), None)
answer_to(chid, qid) ==
    LET as == SelectSeq(answers_of(chid), LAMBDA a : a.question_id = qid)
    IN IF as = <<>> THEN NoRow ELSE as[1]

\* ORDER BY week_start DESC: every order of the user's rows that is non-increasing
\* in week_start (SQL leaves the order of rows of equal week_start open)
by_week_desc(uid) ==
    LET rows == checkins_of(uid)
        n == Len(rows)
    IN { [i \in 1..n |-> rows[p[i]]] :
           p \in { q \in [1..n -> 1..n] :
                     /\ \A i, j \in 1..n : i # j => q[i] # q[j]
                     /\ \A i \in 1..(n - 1) : rows[q[i]].week_start >= rows[q[i + 1]].week_start } }

\* sorted(rows, key=lambda c: c.week_start): stable, ascending
RECURSIVE insert_by_week(_, _)
insert_by_week(sorted, ch) ==
    IF sorted = <<>> THEN <<ch>>
    ELSE IF sorted[Len(sorted)].week_start <= ch.week_start THEN Append(sorted, ch)
    ELSE Append(insert_by_week(SubSeq(sorted, 1, Len(sorted) - 1), ch), sorted[Len(sorted)])

RECURSIVE sorted_by_week(_)
sorted_by_week(rows) ==
    IF rows = <<>> THEN <<>>
    ELSE insert_by_week(sorted_by_week(SubSeq(rows, 1, Len(rows) - 1)), rows[Len(rows)])

\* sorted(S) for a set of dates
RECURSIVE sorted_dates(_)
sorted_dates(S) ==
    IF S = {} THEN <<>>
    ELSE LET m == CHOOSE x \in S : \A y \in S : x <= y
         IN <<m>> \o sorted_dates(S \ {m})

\* the loop of calculate_streak, at index i with `streak` counted so far
RECURSIVE streak_loop(_, _, _)
streak_loop(weeks, i, streak) ==
    IF i < 2 THEN streak
    ELSE IF weeks[i] - weeks[i - 1] = 7 THEN streak_loop(weeks, i - 1, streak + 1)
    ELSE streak

\* calculate_streak without the break: every 7-day gap counts
calculate_streak_no_break(checkins) ==
    IF checkins = <<>> THEN 0
    ELSE LET weeks == sorted_dates({checkins[i].week_start : i \in 1..Len(checkins)})
         IN 1 + Cardinality({i \in 2..Len(weeks) : weeks[i] - weeks[i - 1] = 7})
\* dashboard.calculate_streak(checkins)
calculate_streak(checkins) ==
    IF checkins = <<>> THEN 0
    ELSE LET weeks == sorted_dates({checkins[i].week_start : i \in 1..Len(checkins)})
         IN streak_loop(weeks, Len(weeks), 1)

\* try: int(ans.value) except ValueError: None
ChartNone == [none |-> TRUE, val |-> 0]
scale_value(value) == IF int_ok(value) THEN [none |-> FALSE, val |-> int_value(value)] ELSE ChartNone

\* the chart of dashboard: the check-ins (ascending) that answer the scale question
chart_rows(checkins, qid) ==
    SelectSeq(sorted_by_week(checkins), LAMBDA ch : answer_to(ch.id, qid).id # 0)

\* the labels appended outside `if ans:`, one per check-in
chart_labels_all(checkins, qid) ==
    LET rows == sorted_by_week(checkins)
    IN [i \in 1..Len(rows) |-> strftime(rows[i].week_start)]
\* labels and values of the chart
chart_labels(checkins, qid) ==
    LET rows == chart_rows(checkins, qid)
    IN [i \in 1..Len(rows) |-> strftime(rows[i].week_start)]

chart_values(checkins, qid) ==
    LET rows == chart_rows(checkins, qid)
    IN [i \in 1..Len(rows) |-> scale_value(answer_to(rows[i].id, qid).value)]

\* couple: all_weeks, and week_to_val of one user (later rows overwrite earlier ones)
all_weeks == sorted_dates({check_in[i].week_start : i \in 1..Len(check_in)})

scale_rows(uid, qid, w) ==
    SelectSeq(checkins_of(uid),
              LAMBDA ch : ch.week_start = w /\ answer_to(ch.id, qid).id # 0)

week_value(uid, qid, w) ==
    LET rows == scale_rows(uid, qid, w)
    IN IF rows = <<>> THEN ChartNone
       ELSE scale_value(answer_to(rows[Len(rows)].id, qid).value)

series_of(uid, qid) == [i \in 1..Len(all_weeks) |-> week_value(uid, qid, all_weeks[i])]


(***************************************************************************)
(* /checkin                                                                *)
(***************************************************************************)
\* the submitted forms: field q_<id> is keyed by <id>; question MaxQuestions + 1
\* is never in the catalog.  One form answers question 1 with a padded non-integer
\* and leaves the other fields out; the other has a blank field, a padded text and
\* a field of no question.
CheckinForms ==
    { 1 :> <<" ", "x">>,
      (1 :> <<" ">>) @@ (3 :> <<"o", "k", " ">>) @@ ((MaxQuestions + 1) :> <<"9">>) }

\* raw = request.form.get(f"q_{q.id}", "").strip()
raw_value(form, q) == strip(form_get(form, q.id, <<>>))

\* the loop testing the value before .strip()
answered_questions_unstripped(form) ==
    SelectSeq(question, LAMBDA q : form_get(form, q.id, <<>>) # <<>>)
\* the questions that get an Answer, in the order of the loop
answered_questions(form) == SelectSeq(question, LAMBDA q : raw_value(form, q) # <<>>)

new_answers(chid, form) ==
    LET qs == answered_questions(form)
    IN [i \in 1..Len(qs) |->
          [id |-> Len(answer) + i, checkin_id |-> chid,
           question_id |-> qs[i].id, value |-> raw_value(form, qs[i])]]

\* the row whose answers prefill the form: the user's latest week, any row of it
previous_candidates(uid) ==
    LET rows == checkins_of(uid)
    IN {rows[i].id : i \in {j \in 1..Len(rows) :
                              \A k \in 1..Len(rows) : rows[k].week_start <= rows[j].week_start}}

prev_answers_of(chid) ==
    LET as == answers_of(chid)
    IN {<<as[i].question_id, as[i].value>> : i \in 1..Len(as)}

question_ids == [i \in 1..Len(question) |-> question[i].id]

checkin_get(c) ==
    /\ req' = [route |-> "checkin", method |-> "GET", client |-> c]
    /\ IF ~logged_in(c) THEN resp' = redirect("login", NoFlash)
       ELSE IF ~tables THEN resp' = ServerError("OperationalError")
       ELSE IF current_user(c).id = 0 THEN resp' = ServerError("AttributeError")
       ELSE LET u == current_user(c)
                cands == previous_candidates(u.id)
            IN \E prev \in (IF cands = {} THEN {0} ELSE cands) :
                 resp' = render_template(c, "checkin.html", NoFlash,
                           [user |-> u.id, questions |-> question_ids,
                            week_start |-> get_current_week_start(today),
                            prev_answers |-> IF prev = 0 THEN {} ELSE prev_answers_of(prev)])
    /\ UNCHANGED <<db, session, today, added_by, calls>>

checkin_post(c, form) ==
    /\ req' = [route |-> "checkin", method |-> "POST", client |-> c, form |-> form]
    /\ IF ~logged_in(c)
       THEN /\ resp' = redirect("login", NoFlash)
            /\ UNCHANGED <<check_in, answer>>
       ELSE IF ~tables
       THEN /\ resp' = ServerError("OperationalError")
            /\ UNCHANGED <<check_in, answer>>
       ELSE IF current_user(c).id = 0
       THEN /\ resp' = ServerError("AttributeError")
            /\ UNCHANGED <<check_in, answer>>
       ELSE /\ Len(check_in) < MaxCheckIns
            /\ LET ch == [id |-> NextId(check_in), user_id |-> current_user(c).id,
                          week_start |-> get_current_week_start(today)]
               IN /\ check_in' = Append(check_in, ch)
                  /\ answer' = answer \o new_answers(ch.id, form)
            /\ resp' = redirect("dashboard", "saved")
    /\ UNCHANGED <<tables, user, question, session, today, added_by, calls>>

(***************************************************************************)
(* /dashboard                                                              *)
(***************************************************************************)
dashboard_data(u, checkins) ==
    LET scale_q == first_scale_question
    IN [user |-> u.id,
        checkins |-> [i \in 1..Len(checkins) |-> checkins[i].id],
        chart_labels |-> IF scale_q.id # 0 THEN chart_labels(checkins, scale_q.id) ELSE <<>>,
        chart_values |-> IF scale_q.id # 0 THEN chart_values(checkins, scale_q.id) ELSE <<>>,
        scale_question |-> scale_q.id,
        streak |-> calculate_streak(checkins)]

dashboard(c) ==
    /\ req' = [route |-> "dashboard", method |-> "GET", client |-> c]
    /\ IF ~logged_in(c) THEN resp' = redirect("login", NoFlash)
       ELSE IF ~tables THEN resp' = ServerError("OperationalError")
       ELSE IF current_user(c).id = 0 THEN resp' = ServerError("AttributeError")
       ELSE \E checkins \in by_week_desc(current_user(c).id) :
              resp' = render_template(c, "dashboard.html", NoFlash,
                                      dashboard_data(current_user(c), checkins))
    /\ UNCHANGED <<db, session, today, added_by, calls>>

(***************************************************************************)
(* /week/<int:checkin_id>                                                  *)
(***************************************************************************)
\* week_detail without the owner check
may_view_any(ch, u) == TRUE
\* the owner check of week_detail
may_view(ch, u) == ch.user_id = u.id

week_detail(c, checkin_id) ==
    /\ req' = [route |-> "week_detail", method |-> "GET", client |-> c, checkin_id |-> checkin_id]
    /\ IF ~logged_in(c) THEN resp' = redirect("login", NoFlash)
       ELSE IF ~tables THEN resp' = ServerError("OperationalError")
       ELSE LET ch == query_get(check_in, checkin_id)
                u == current_user(c)
            IN IF ch.id = 0 THEN resp' = abort(404)
               ELSE IF u.id = 0 THEN resp' = ServerError("AttributeError")
               ELSE IF ~may_view(ch, u) THEN resp' = abort(403)
               ELSE resp' = render_template(c, "week_detail.html", NoFlash,
                              [checkin |-> ch.id, user_id |-> ch.user_id,
                               week_start |-> ch.week_start,
                               answers |-> prev_answers_of(ch.id)])
    /\ UNCHANGED <<db, session, today, added_by, calls>>

(***************************************************************************)
(* /couple                                                                 *)
(***************************************************************************)
couple_data ==
    LET scale_q == first_scale_question
        names == {user[i].name : i \in 1..Len(user)}
        last_named(n) == user[CHOOSE i \in 1..Len(user) :
                                /\ user[i].name = n
                                /\ \A j \in (i + 1)..Len(user) : user[j].name # n]
    IN [labels |-> [i \in 1..Len(all_weeks) |-> strftime(all_weeks[i])],
        series |-> [n \in names |-> series_of(last_named(n).id, scale_q.id)]]

couple(c) ==
    /\ req' = [route |-> "couple", method |-> "GET", client |-> c]
    /\ IF ~logged_in(c) THEN resp' = redirect("login", NoFlash)
       ELSE IF ~tables THEN resp' = ServerError("OperationalError")
       ELSE IF first_scale_question.id = 0 \/ Len(user) < 2
       THEN resp' = redirect("dashboard", "needs_two_users")
       ELSE resp' = render_template(c, "couple.html", NoFlash, couple_data)
    /\ UNCHANGED <<db, session, today, added_by, calls>>

(***************************************************************************)
(* /admin/questions                                                        *)
(***************************************************************************)
AdminForms ==
    { [text |-> <<" ">>, kind |-> "scale"],
      [text |-> <<" ", "n">>, kind |-> "scale"],
      [text |-> <<"n">>] }

admin_questions_get(c) ==
    /\ req' = [route |-> "admin_questions", method |-> "GET", client |-> c]
    /\ IF ~logged_in(c) THEN resp' = redirect("login", NoFlash)
       ELSE IF ~tables THEN resp' = ServerError("OperationalError")
       ELSE IF ~is_admin(current_user(c)) THEN resp' = abort(403)
       ELSE resp' = render_template(c, "admin_questions.html", NoFlash,
                                    [questions |-> question_ids])
    /\ UNCHANGED <<db, session, today, added_by, calls>>

admin_questions_post(c, form) ==
    /\ req' = [route |-> "admin_questions", method |-> "POST", client |-> c, form |-> form]
    /\ IF ~logged_in(c)
       THEN /\ resp' = redirect("login", NoFlash)
            /\ UNCHANGED <<question, added_by>>
       ELSE IF ~tables
       THEN /\ resp' = ServerError("OperationalError")
            /\ UNCHANGED <<question, added_by>>
       ELSE IF ~is_admin(current_user(c))
       THEN /\ resp' = abort(403)
            /\ UNCHANGED <<question, added_by>>
       ELSE LET text == strip(form_get(form, "text", <<>>))
                kind == form_get(form, "kind", "text")
            IN IF text # <<>>
               THEN /\ Len(question) < MaxQuestions
                    /\ question' = Append(question,
                                          [id |-> NextId(question), text |-> text, kind |-> kind])
                    /\ added_by' = Append(added_by,
                                          [question_id |-> NextId(question), user_id |-> session[c]])
                    /\ resp' = redirect("admin_questions", "added")
               ELSE /\ resp' = redirect("admin_questions", NoFlash)
                    /\ UNCHANGED <<question, added_by>>
    /\ UNCHANGED <<tables, user, check_in, answer, session, today, calls>>

(***************************************************************************)
(* The application: requests of the browsers, init-db runs, days passing.  *)
(***************************************************************************)
Next ==
    \/ init_db
    \/ Tick
    \/ \E c \in Clients : login_get(c)
    \/ \E c \in Clients, form \in LoginForms : login_post(c, form.slug, form.password)
    \/ \E c \in Clients : logout(c)
    \/ \E c \in Clients : checkin_get(c)
    \/ \E c \in Clients, form \in CheckinForms : checkin_post(c, form)
    \/ \E c \in Clients : dashboard(c)
    \/ \E c \in Clients, checkin_id \in 1..(MaxCheckIns + 1) : week_detail(c, checkin_id)
    \/ \E c \in Clients : couple(c)
    \/ \E c \in Clients : admin_questions_get(c)
    \/ \E c \in Clients, form \in AdminForms : admin_questions_post(c, form)

Spec == Init /\ [][Next]_vars


(***************************************************************************)
(* What the claims speak of, stated without the operators of the handlers. *)
(***************************************************************************)
Blanks(n) == [i \in 1..n |-> " "]

\* t is s without its leading and trailing blanks
IsTrimOf(t, s) ==
    /\ t = <<>> \/ (t[1] # " " /\ t[Len(t)] # " ")
    /\ Len(t) <= Len(s)
    /\ \E i \in 0..(Len(s) - Len(t)) : s = Blanks(i) \o t \o Blanks(Len(s) - Len(t) - i)

Substrings(s) == {SubSeq(s, i, j) : i \in 1..(Len(s) + 1), j \in 0..Len(s)}
TrimOf(s) == CHOOSE t \in Substrings(s) : IsTrimOf(t, s)

\* the step is a request to `route` (a passing day keeps req and moves today)
RequestStep(route) == req'.route = route /\ today' = today

ProtectedRoutes == {"checkin", "dashboard", "week_detail", "couple", "admin_questions"}

\* the user of the session of the last request
SessionUser == session[req.client]
SlugOf(uid) == {user[i].slug : i \in {j \in 1..Len(user) : user[j].id = uid}}

(***************************************************************************)
(* C1                                                                      *)
(***************************************************************************)
C1_Forbidden ==
    (req.route = "admin_questions" /\ SessionUser # NoUser /\ mina \notin SlugOf(SessionUser))
        => resp.status = 403

C1_AddedByAdmin ==
    \A i \in 1..Len(added_by) : SlugOf(added_by[i].user_id) = {mina}

C1_Step ==
    /\ (RequestStep("admin_questions") /\ session[req'.client] # NoUser
            /\ mina \notin SlugOf(session[req'.client]))
         => (question' = question /\ resp'.status = 403)
    /\ question' # question
         => \/ RequestStep("init-db")
            \/ RequestStep("admin_questions") /\ SlugOf(session[req'.client]) = {mina}

\* C1: a logged-in user whose slug is not "mina" gets 403 from admin_questions (GET
\* or POST) and leaves the question catalog unchanged; every question added over
\* the web was added by a request whose session user has slug "mina".
C1_AdminGate == [](C1_Forbidden /\ C1_AddedByAdmin) /\ [][C1_Step]_vars

\* tema is refused a POST while a question added by mina is in the catalog
C1_Witness ==
    /\ req.route = "admin_questions" /\ req.method = "POST"
    /\ SlugOf(SessionUser) = {tema}
    /\ resp.status = 403
    /\ Len(added_by) > 0

(***************************************************************************)
(* C5                                                                      *)
(***************************************************************************)
\* the users whose slug and password are the submitted ones
MatchingUsers(slug, password) ==
    { user[i].id : i \in { j \in 1..Len(user) :
                             /\ user[j].slug = TrimOf(slug)
                             /\ user[j].password_hash = generate_password_hash(TrimOf(password)) } }

C5_Step ==
    (RequestStep("login") /\ req'.method = "POST")
      => IF MatchingUsers(req'.slug, req'.password) # {}
         THEN /\ {session'[req'.client]} = MatchingUsers(req'.slug, req'.password)
              /\ resp'.status = 302
         ELSE /\ session' = session
              /\ resp'.status = 200 /\ resp'.view = "login.html"
              /\ resp'.flash = "bad_credentials"

\* C5: a login POST sets the session's user_id to U only when U has the submitted
\* slug and the submitted password matches U's hash; on an unknown slug or a wrong
\* password the session is unchanged and the login page is shown again with the
\* bad-credentials message.
C5_Login == [][C5_Step]_vars

\* what holds of C5 once init-db has run
C5_OnceInitialised == [][tables => C5_Step]_vars

(***************************************************************************)
(* C6                                                                      *)
(***************************************************************************)
C6_Step ==
    /\ (req'.route \in ProtectedRoutes /\ today' = today /\ session[req'.client] = NoUser)
         => /\ resp' = redirect("login", NoFlash)
            /\ db' = db /\ session' = session
    /\ \A c \in Clients :
         (session[c] = NoUser /\ session'[c] # NoUser)
            => /\ RequestStep("login") /\ req'.method = "POST" /\ req'.client = c
               /\ resp'.status = 302 /\ resp'.view = "dashboard"

C6_LoggedOut == req.route = "logout" => SessionUser = NoUser

\* C6: a request to checkin, dashboard, week_detail, couple or admin_questions with
\* no user_id in the session is redirected to login, creates no CheckIn, Answer or
\* Question and shows no stored data; after logout the session has no user_id
\* until a login POST succeeds.
C6_AuthFirst == []C6_LoggedOut /\ [][C6_Step]_vars

\* a POST to checkin after logout, with check-ins in the store, is redirected
C6_Witness ==
    /\ req.route = "checkin" /\ req.method = "POST"
    /\ SessionUser = NoUser
    /\ resp = redirect("login", NoFlash)
    /\ Len(check_in) > 0

(***************************************************************************)
(* C7                                                                      *)
(***************************************************************************)
\* C7: every request ends in a normal page or redirect or in one of exactly three
\* failures (404 for a missing check-in, the bad-credentials message, 403); a
\* logged-in session always resolves to an existing user.
C7_NoOtherFailure ==
    /\ resp.status \in {0, 200, 302, 403, 404}
    /\ resp.status = 404 => req.route = "week_detail"
    /\ resp.status = 403 => req.route \in {"week_detail", "admin_questions"}
    /\ \A c \in Clients : session[c] # NoUser => current_user(c).id # 0

\* what holds of C7 once init-db has run: no request ends in a server error
C7_OnceInitialised == tables => C7_NoOtherFailure

(***************************************************************************)
(* C8                                                                      *)
(***************************************************************************)
CheckInIds == {check_in[i].id : i \in 1..Len(check_in)}
OwnerOf(chid) == {check_in[i].user_id : i \in {j \in 1..Len(check_in) : check_in[j].id = chid}}

\* C8: for a logged-in user U, week_detail answers 404 when no check-in has the id,
\* 403 when the check-in belongs to another user, and renders the check-in only
\* when it belongs to U.
C8_OwnerOnly ==
    /\ (req.route = "week_detail" /\ SessionUser # NoUser)
         => /\ req.checkin_id \notin CheckInIds => resp = abort(404)
            /\ (req.checkin_id \in CheckInIds /\ OwnerOf(req.checkin_id) # {SessionUser})
                 => resp = abort(403)
            /\ OwnerOf(req.checkin_id) = {SessionUser}
                 => /\ resp.status = 200 /\ resp.view = "week_detail.html"
                    /\ resp.data.checkin = req.checkin_id
    /\ resp.view = "week_detail.html"
         => /\ SessionUser # NoUser
            /\ OwnerOf(resp.data.checkin) = {SessionUser}

\* a user asks for the other user's check-in and is refused
C8_Witness ==
    /\ req.route = "week_detail" /\ SessionUser # NoUser
    /\ req.checkin_id \in CheckInIds /\ OwnerOf(req.checkin_id) # {SessionUser}
    /\ resp = abort(403)


(***************************************************************************)
(* C9                                                                      *)
(***************************************************************************)
QuestionIds == {question[i].id : i \in 1..Len(question)}
Submitted(form, qid) == IF qid \in DOMAIN form THEN TrimOf(form[qid]) ELSE <<>>

C9_Step ==
    (RequestStep("checkin") /\ req'.method = "POST" /\ session[req'.client] # NoUser)
      => LET n == Len(check_in)
             m == Len(answer)
             new == check_in'[n + 1]
             added == {answer'[i] : i \in (m + 1)..Len(answer')}
         IN /\ Len(check_in') = n + 1
            /\ SubSeq(check_in', 1, n) = check_in
            /\ new.id \notin CheckInIds
            /\ new.user_id = session[req'.client]
            /\ weekday(new.week_start) = 0
            /\ new.week_start <= today /\ today - new.week_start <= 6
            /\ Len(answer') >= m
            /\ SubSeq(answer', 1, m) = answer
            /\ Cardinality(added) = Len(answer') - m
            /\ \A a \in added : a.checkin_id = new.id /\ a.question_id \in QuestionIds
            /\ \A q \in QuestionIds :
                 LET of_q == {a \in added : a.question_id = q}
                 IN IF Submitted(req'.form, q) = <<>>
                    THEN of_q = {}
                    ELSE /\ Cardinality(of_q) = 1
                         /\ \A a \in of_q : a.value = Submitted(req'.form, q)
            /\ question' = question /\ user' = user

\* C9: a check-in POST by logged-in user U creates exactly one CheckIn, owned by U,
\* with week_start the Monday of the current week, and exactly one Answer for each
\* existing question whose submitted value is non-empty after trimming; it leaves
\* the existing CheckIns and Answers and the question catalog unchanged.
C9_CheckinPost == [][C9_Step]_vars

\* a second check-in was posted with a blank value, a padded value and a value
\* for a question that is not in the catalog
C9_Witness ==
    /\ req.route = "checkin" /\ req.method = "POST"
    /\ resp = redirect("dashboard", "saved")
    /\ (MaxQuestions + 1) \in DOMAIN req.form
    /\ Len(check_in) = 2
    /\ \E i \in 1..Len(answer) : answer[i].checkin_id = 2 /\ answer[i].value = <<"o", "k">>

(***************************************************************************)
(* C10                                                                     *)
(***************************************************************************)
\* C10: each user has at most one CheckIn per week_start.
C10_OnePerWeek ==
    \A i, j \in 1..Len(check_in) :
        (check_in[i].user_id = check_in[j].user_id /\ check_in[i].week_start = check_in[j].week_start)
            => i = j


(***************************************************************************)
(* Specification SpecWeek: get_current_week_start on the days from        *)
(* FirstDay on, across the turn of the year.                               *)
(***************************************************************************)
call_week_start ==
    /\ Len(calls) < MaxCalls
    /\ calls' = Append(calls, <<today, get_current_week_start(today)>>)
    /\ UNCHANGED <<db, session, today, req, resp, added_by>>

next_day ==
    /\ today < FirstDay + MaxWeekDays
    /\ today' = today + 1
    /\ UNCHANGED <<db, session, req, resp, added_by, calls>>

NextWeek == call_week_start \/ next_day

SpecWeek == Init /\ [][NextWeek]_vars

\* d1 and d2 lie in the same Monday-to-Sunday week
SameWeek(d1, d2) ==
    \E m \in (d1 - 6)..d1 : weekday(m) = 0 /\ m <= d2 /\ d2 <= m + 6

\* C3: get_current_week_start returns a Monday that is not after today and at most
\* 6 days before it; two dates of the same Monday-to-Sunday week give the same week
\* start, and the week starts of two different weeks differ by a multiple of 7 days.
C3_FloorToMonday ==
    /\ \A i \in 1..Len(calls) :
         /\ weekday(calls[i][2]) = 0
         /\ calls[i][2] <= calls[i][1]
         /\ calls[i][1] - calls[i][2] <= 6
    /\ \A i, j \in 1..Len(calls) :
         IF SameWeek(calls[i][1], calls[j][1])
         THEN calls[i][2] = calls[j][2]
         ELSE calls[i][2] # calls[j][2] /\ (calls[i][2] - calls[j][2]) % 7 = 0

\* a Wednesday and the Sunday of the same week, in the week of the turn of the year
C3_Witness ==
    /\ Len(calls) = 2
    /\ weekday(calls[1][1]) = 2 /\ weekday(calls[2][1]) = 6
    /\ SameWeek(calls[1][1], calls[2][1])
    /\ YearMonthDay(calls[1][1])[1] # YearMonthDay(calls[1][2])[1]


(***************************************************************************)
(* Specification SpecAgg: dashboard and couple over the stores that        *)
(* check-in POSTs can build: up to MaxAggCheckIns check-ins of the two     *)
(* users, week starts (Mondays) ascending in rowid order, each check-in    *)
(* with no answer, an integer answer to question 1, or a non-integer       *)
(* answer to question 1 and an integer answer to question 2.               *)
(***************************************************************************)
AggWeeks == {get_current_week_start(FirstDay) + 7 * k : k \in 0..MaxAggWeeks}

AggAnswers ==
    { <<>>,
      << <<1, <<"7">> >> >>,
      << <<1, <<"x">> >>, <<2, <<"5">> >> >> }

AggRows == [user_id : {1, 2}, week_start : AggWeeks, answers : AggAnswers]

RECURSIVE agg_answers(_, _)
agg_answers(rows, n) ==
    IF n = 0 THEN <<>>
    ELSE LET before == agg_answers(rows, n - 1)
             mine == rows[n].answers
         IN before \o [i \in 1..Len(mine) |->
                         [id |-> Len(before) + i, checkin_id |-> n,
                          question_id |-> mine[i][1], value |-> mine[i][2]]]

InitAgg ==
    /\ tables = TRUE
    /\ user = SeedUsers
    /\ question = SeedQuestions
    /\ \E n \in 0..MaxAggCheckIns : \E rows \in [1..n -> AggRows] :
         /\ \A i \in 1..(n - 1) : rows[i].week_start <= rows[i + 1].week_start
         /\ check_in = [i \in 1..n |-> [id |-> i, user_id |-> rows[i].user_id,
                                         week_start |-> rows[i].week_start]]
         /\ answer = agg_answers(rows, n)
    /\ session \in [Clients -> {1, 2}]
    /\ today = FirstDay + 7 * MaxAggWeeks
    /\ req = [route |-> "none"]
    /\ resp = [status |-> 0, view |-> "none", flash |-> NoFlash, data |-> NoData]
    /\ added_by = <<>>
    /\ calls = <<>>

\* one request on each store: a response does not depend on the request before it
NextAgg ==
    \/ req.route = "none" /\ \E c \in Clients : dashboard(c)
    \/ req.route = "none" /\ \E c \in Clients : couple(c)

SpecAgg == InitAgg /\ [][NextAgg]_vars

\* the distinct week starts of a user's check-ins, and the i-th latest of them
WeeksOf(uid) == {check_in[i].week_start : i \in {j \in 1..Len(check_in) : check_in[j].user_id = uid}}
Latest(W, i) == CHOOSE w \in W : Cardinality({x \in W : x > w}) = i - 1

\* 1 + the number of consecutive 7-day gaps walking back from the latest week start
WalkedStreak(W) ==
    IF W = {} THEN 0
    ELSE CHOOSE k \in 1..Cardinality(W) :
           /\ \A i \in 1..(k - 1) : Latest(W, i) - Latest(W, i + 1) = 7
           /\ k < Cardinality(W) => Latest(W, k) - Latest(W, k + 1) # 7

\* C2: the streak is 0 without check-ins, otherwise 1 plus the number of consecutive
\* gaps of exactly 7 days walking backwards from the latest of the distinct week
\* starts, stopping at the first other gap; it never exceeds the number of distinct
\* week starts.
C2_Streak ==
    resp.view = "dashboard.html"
      => /\ resp.data.streak = WalkedStreak(WeeksOf(SessionUser))
         /\ resp.data.streak <= Cardinality(WeeksOf(SessionUser))
         /\ (checkins_of(SessionUser) = <<>>) <=> (resp.data.streak = 0)

\* three distinct weeks, the walk stops at a two-week gap after one 7-day gap
C2_Witness ==
    /\ resp.view = "dashboard.html"
    /\ Cardinality(WeeksOf(SessionUser)) = 3
    /\ resp.data.streak = 2

\* the first scale question and the check-ins of a user that answer it
FirstScale == CHOOSE q \in QuestionIds :
                 /\ \E i \in 1..Len(question) : question[i].id = q /\ question[i].kind = "scale"
                 /\ \A i \in 1..Len(question) : question[i].kind = "scale" => q <= question[i].id
ScaleAnswers(chid) ==
    {answer[i].value : i \in {j \in 1..Len(answer) :
                                answer[j].checkin_id = chid /\ answer[j].question_id = FirstScale}}
Answering(uid) ==
    {i \in 1..Len(check_in) : check_in[i].user_id = uid /\ ScaleAnswers(check_in[i].id) # {}}

IntOrNone(value) ==
    IF int_ok(value) THEN [none |-> FALSE, val |-> int_value(value)] ELSE [none |-> TRUE, val |-> 0]

AllWeeks == {check_in[i].week_start : i \in 1..Len(check_in)}

C4_Dashboard ==
    resp.view = "dashboard.html"
      => LET labels == resp.data.chart_labels
             values == resp.data.chart_values
             rows == Answering(SessionUser)
         IN /\ Len(labels) = Len(values)
            /\ Len(labels) = Cardinality(rows)
            /\ \E p \in [1..Len(labels) -> rows] :
                 /\ \A i, j \in 1..Len(labels) : i # j => p[i] # p[j]
                 /\ \A i \in 1..(Len(labels) - 1) :
                      check_in[p[i]].week_start <= check_in[p[i + 1]].week_start
                 /\ \A i \in 1..Len(labels) :
                      /\ labels[i] = strftime(check_in[p[i]].week_start)
                      /\ \E v \in ScaleAnswers(check_in[p[i]].id) : values[i] = IntOrNone(v)

C4_Couple ==
    resp.view = "couple.html"
      => LET labels == resp.data.labels
             series == resp.data.series
         IN /\ Len(labels) = Cardinality(AllWeeks)
            /\ {labels[i] : i \in 1..Len(labels)} = {strftime(w) : w \in AllWeeks}
            /\ \A i \in 1..(Len(labels) - 1) : LabelLess(labels[i], labels[i + 1])
            /\ DOMAIN series = {user[i].name : i \in 1..Len(user)}
            /\ \A k \in 1..Len(user) :
                 /\ Len(series[user[k].name]) = Len(labels)
                 /\ \A i \in 1..Len(labels) :
                      (\A r \in Answering(user[k].id) :
                           strftime(check_in[r].week_start) # labels[i])
                        => series[user[k].name][i].none

\* C4: in dashboard, chart_labels and chart_values have the same length, one entry
\* per check-in of the user that answers the first scale question, in ascending
\* week-start order, None where the answer is not an integer; in couple, labels is
\* the ascending list of the distinct week starts of all users and every user's
\* series has len(labels) entries, None at each week without a scale answer of
\* that user.
C4_ParallelArrays == C4_Dashboard /\ C4_Couple

\* a dashboard with an integer point and a None point, of a user who also has a
\* check-in that does not answer the first scale question
C4_Witness ==
    /\ resp.view = "dashboard.html"
    /\ Len(resp.data.chart_values) = 2
    /\ \E i, j \in 1..2 : resp.data.chart_values[i].none /\ ~resp.data.chart_values[j].none
    /\ Len(checkins_of(SessionUser)) = 3

====
